---- MODULE Spec2Model ----
(***************************************************************************)
(* Task execution pipeline of the video download service.                  *)
(*                                                                         *)
(*   app/tasks.py     download_video_task  (Task Lifecycle Controller)     *)
(*   app/main.py      create_task, cancel_task (submission / cancellation) *)
(*   app/callback.py  CallbackService      (Callback Notifier)             *)
(*   app/storage.py   StorageUploader.upload (Storage Dispatcher)          *)
(*   app/downloader.py VideoDownloader.download (Download Orchestrator)    *)
(*                                                                         *)
(* One task record is modelled.  The worker holds an ORM session: an       *)
(* attribute assignment only marks the column dirty, db.commit() writes    *)
(* the dirty columns to the persisted row.  cancel_task runs in another    *)
(* session, its query and its commit are separate steps.                   *)
(***************************************************************************)
EXTENDS Integers, Sequences, FiniteSets, TLC

\* ------------------------------------------------------------------------
\* Bounds of the model
\* ------------------------------------------------------------------------
\* number of cancel requests (DELETE /api/v1/tasks/{id}) issued for the task
MaxCancels == 1
\* number of progress events that reach the progress callback in one download
MaxTicks == 1
\* largest max_retries argument tried for the CallbackService constructor
MaxRetriesArg == 4
\* number of progress events the extraction library delivers in one download
MaxEvents == 3
\* number of pieces of a destination URL after its scheme
MaxUrlLen == 6
\* number of "finished" events the extraction library delivers in one download
MaxFinished == 2

\* ------------------------------------------------------------------------
\* Program constants
\* ------------------------------------------------------------------------
\* app/tasks.py:42  max_retries=3 of the celery task
TaskMaxRetries == 3
\* app/config.py:46 callback_max_retries
callback_max_retries == 3
\* app/callback.py:116  wait_time = 30 * (2 ** attempt)
BackoffBase == 30

\* app/models.py:8-14
PENDING == "pending"
DOWNLOADING == "downloading"
UPLOADING == "uploading"
COMPLETED == "completed"
FAILED == "failed"
CANCELLED == "cancelled"
TaskStatus == {PENDING, DOWNLOADING, UPLOADING, COMPLETED, FAILED, CANCELLED}
Terminal == {COMPLETED, FAILED, CANCELLED}

Null == "null"

\* columns of the tasks table that the pipeline writes (app/models.py:27-52)
Fields ==
    {"status", "progress", "error_code", "error_message", "video_title",
     "download_url", "file_name", "file_size", "local_path",
     "celery_task_id", "started_at", "completed_at"}

ResultFields == {"download_url", "file_name", "file_size"}
ErrorFields == {"error_code", "error_message"}

\* storage_type argument of the controller: local, two of the three backends
\* of upload() and "ftp" for any unknown type
StorageTypes == {"local", "s3", "s3_compatible", "ftp"}

\* codes a DownloadError raised by VideoDownloader.download can carry
DownloadErrorCodes == {"VIDEO_UNAVAILABLE", "FILE_TOO_LARGE", "UNKNOWN_ERROR"}

VARIABLES
    db,        \* the persisted row of the task
    pend,      \* worker session: dirty columns and their new values
    pc,        \* position of the worker in download_video_task
    ret,       \* what the last invocation returned ("none" while running)
    exc,       \* exception caught by the handler that is running
    retries,   \* self.request.retries: re-invocations done by the runtime
    ticks,     \* progress events delivered in the running download
    fileExists,\* the artifact of the running invocation is on disk
    upl,       \* outcome of the Storage Dispatcher in this invocation
    work,      \* stages this invocation has performed
    cfg,       \* immutable inputs of the task
    cpc,       \* position of the cancel request in cancel_task
    csnap,     \* row as loaded by the query of cancel_task
    cancels,   \* cancel requests issued so far
    revoked,   \* celery_app.control.revoke(..., terminate=True) was issued
    idset,     \* create_task has committed celery_task_id (main.py:127-128)
    cb,        \* the Callback Notifier call in progress
    fn         \* a component exercised on its own: its call and its result

vars == <<db, pend, pc, ret, exc, retries, ticks, fileExists, upl, work, cfg,
          cpc, csnap, cancels, revoked, idset, cb, fn>>

\* no component is being exercised on its own
NoCall == [op |-> "none"]

workerVars == <<pend, pc, ret, exc, retries, ticks, fileExists, upl, work>>
cancelVars == <<cpc, csnap, cancels, revoked>>

\* ------------------------------------------------------------------------
\* ORM session (sqlalchemy unit of work, as used by tasks.py and main.py)
\* ------------------------------------------------------------------------
NoPending == [f \in {} |-> Null]

\* task.<f> = v
SetAttr(p, f, v) == [g \in (DOMAIN p) \cup {f} |-> IF g = f THEN v ELSE p[g]]

\* db.commit(): the dirty columns overwrite the row, the rest is kept.
\* A commit of the pipeline returns; the one commit whose failure the code
\* handles, in the progress callback, is modelled as able to raise.
Commit(row, p) == [f \in Fields |-> IF f \in DOMAIN p THEN p[f] ELSE row[f]]

\* row inserted by create_task (app/main.py:106-113, defaults of models.py)
NewRow ==
    [f \in Fields |->
        IF f = "status" THEN PENDING
        ELSE IF f = "progress" THEN 0
        ELSE Null]

\* ------------------------------------------------------------------------
\* Callback Notifier (app/callback.py)
\* ------------------------------------------------------------------------
\* what one POST attempt can produce: a response with a status code, or an
\* exception of one of the three handled classes
Outcomes ==
    [kind : {"response"}, status : {199, 200, 299, 300}]
        \cup [kind : {"timeout", "request_error", "exception"}, status : {0}]

\* the attempt outcomes tried for the notifier calls made by the pipeline
PipelineOutcomes ==
    {[kind |-> "response", status |-> 200],
     [kind |-> "response", status |-> 300],
     [kind |-> "timeout", status |-> 0]}

NoOutcome == [kind |-> "none", status |-> 0]

\* CallbackService.__init__: max_retries or settings.callback_max_retries
\* (arg = -1 stands for None)
InitMaxRetries(arg) ==
    IF arg = -1 \/ arg = 0 THEN callback_max_retries ELSE arg

\* variant: the upper bound is inclusive
IsSuccess_inclusive(o) ==
    o.kind = "response" /\ o.status >= 200 /\ o.status <= 300

\* response.status_code >= 200 and response.status_code < 300
IsSuccess(o) == o.kind = "response" /\ o.status >= 200 /\ o.status < 300

RECURSIVE Pow2(_)
Pow2(n) == IF n <= 0 THEN 1 ELSE 2 * Pow2(n - 1)

\* variant: linear instead of exponential backoff
WaitTime_linear(attempt) == BackoffBase * (attempt + 1)

\* wait_time = 30 * (2 ** attempt)
WaitTime(attempt) == BackoffBase * Pow2(attempt)

NoPayload == [status |-> "none", code |-> Null, message |-> Null, url |-> Null]

\* CallbackService(max_retries=arg): a service on which no call is running
CallbackService(arg) ==
    [pc |-> "idle", conv |-> "sync", payload |-> NoPayload, arg |-> arg,
     n |-> InitMaxRetries(arg), attempt |-> 0, posts |-> 0, waits |-> <<>>,
     last |-> NoOutcome, result |-> "none"]

\* the singleton callback_service = CallbackService() (app/callback.py:166)
callback_service == CallbackService(-1)

\* a call of send_callback_sync / send_callback_async enters its for loop;
\* range(self.max_retries) may be empty, then the call returns False
CbBegin(c, conv, payload) ==
    [c EXCEPT
        !.pc = IF c.n > 0 THEN "loop" ELSE "returned",
        !.conv = conv, !.payload = payload, !.attempt = 0, !.posts = 0,
        !.waits = <<>>, !.last = NoOutcome,
        !.result = IF c.n > 0 THEN "none" ELSE "false"]

\* variant: no generic except clause
SyncCatches_nogeneric(kind) == kind \in {"timeout", "request_error"}

\* the except clauses of send_callback_sync (app/callback.py:107-112):
\* httpx.TimeoutException, httpx.RequestError, Exception
SyncCatches(kind) == kind \in {"timeout", "request_error", "exception"}

\* variant: a timeout is not caught
AsyncCatches_notimeout(kind) == kind \in {"request_error", "exception"}

\* the except clauses of send_callback_async (app/callback.py:57-62)
AsyncCatches(kind) == kind \in {"timeout", "request_error", "exception"}

\* one iteration of the loop of send_callback_sync with attempt outcome o
SyncIteration(c, o) ==
    IF IsSuccess(o)
    THEN [c EXCEPT !.pc = "returned", !.posts = @ + 1, !.last = o,
                   !.result = "true"]
    ELSE IF o.kind # "response" /\ ~SyncCatches(o.kind)
    THEN [c EXCEPT !.pc = "returned", !.posts = @ + 1, !.last = o,
                   !.result = "raised"]
    ELSE [c EXCEPT
            !.posts = @ + 1,
            !.last = o,
            !.waits = IF c.attempt < c.n - 1
                      THEN Append(@, WaitTime(c.attempt)) ELSE @,
            !.attempt = @ + 1,
            !.pc = IF c.attempt + 1 < c.n THEN "loop" ELSE "returned",
            !.result = IF c.attempt + 1 < c.n THEN "none" ELSE "false"]

\* one iteration of the loop of send_callback_async with attempt outcome o
AsyncIteration(c, o) ==
    IF IsSuccess(o)
    THEN [c EXCEPT !.pc = "returned", !.posts = @ + 1, !.last = o,
                   !.result = "true"]
    ELSE IF o.kind # "response" /\ ~AsyncCatches(o.kind)
    THEN [c EXCEPT !.pc = "returned", !.posts = @ + 1, !.last = o,
                   !.result = "raised"]
    ELSE [c EXCEPT
            !.posts = @ + 1,
            !.last = o,
            !.waits = IF c.attempt < c.n - 1
                      THEN Append(@, WaitTime(c.attempt)) ELSE @,
            !.attempt = @ + 1,
            !.pc = IF c.attempt + 1 < c.n THEN "loop" ELSE "returned",
            !.result = IF c.attempt + 1 < c.n THEN "none" ELSE "false"]

Iteration(c, o) ==
    IF c.conv = "sync" THEN SyncIteration(c, o) ELSE AsyncIteration(c, o)

\* build_success_payload / build_failure_payload (app/callback.py:123-162)
build_success_payload(download_url) ==
    [status |-> "completed", code |-> Null, message |-> Null,
     url |-> download_url]

\* variant: the payload announces a completed task
build_failure_payload_completed(error_code, error_message) ==
    [status |-> "completed", code |-> error_code, message |-> error_message,
     url |-> Null]

\* variant: the payload carries the generic code
build_failure_payload_generic(error_code, error_message) ==
    [status |-> "failed", code |-> "UNKNOWN_ERROR",
     message |-> error_message, url |-> Null]

build_failure_payload(error_code, error_message) ==
    [status |-> "failed", code |-> error_code, message |-> error_message,
     url |-> Null]

\* positions of the worker inside a call of callback_service.send_callback_sync
NotifyPcs == {"notify_completed", "notify_failed", "notify_raise"}

\* a loop iteration of the notifier call in progress; inside the pipeline the
\* call was made by the worker, which waits for it
send_callback_attempt ==
    /\ cb.pc = "loop"
    /\ pc \in NotifyPcs \cup {"standalone"}
    /\ \E o \in (IF pc = "standalone" THEN Outcomes ELSE PipelineOutcomes) :
        cb' = Iteration(cb, o)
    /\ UNCHANGED <<db, workerVars, cfg, fn, cancelVars, idset>>

\* ------------------------------------------------------------------------
\* Storage Dispatcher (app/storage.py:42-97), seen from its caller
\* ------------------------------------------------------------------------
UploadTypes == {"s3", "gcs", "s3_compatible"}

\* what a backend handler (_upload_s3, _upload_gcs, _upload_s3_compatible)
\* can do: return the remote URL, raise a StorageError, raise anything else
HandlerOutcomes == {"url", "storage_error", "exception"}

\* codes of the StorageError a handler raises itself: the SDK cannot be
\* imported (lines 198-201, 229-235, 264-269, 296-302), the native vendor
\* handler has no credentials (lines 307-308), or the backend refused
\* (lines 223-225, 253-254, 289-291, 329-330; the vendor's code is embedded)
HandlerErrors(storage_type) ==
    {"MISSING_DEPENDENCY", "BACKEND_ERROR"}
        \cup (IF storage_type = "s3_compatible"
              THEN {"MISSING_CREDENTIALS"} ELSE {})

\* what a call of upload() did: the value returned or the code of the
\* StorageError raised, whether the local file exists afterwards, the
\* backend handler that was called ("none": no handler, so no network
\* action) and what became of local_path.unlink() ("none": not attempted)
Result(value, error, exists, handler, unlink) ==
    [value |-> value, error |-> error, exists |-> exists,
     handler |-> handler, unlink |-> unlink]

\* variant: the local file is unlinked before the handler's result is known
upload_unlink_first(exists, storage_type, storage_url, delete_local) ==
    IF ~exists
    THEN {Result(Null, "FILE_NOT_FOUND", FALSE, "none", "none")}
    ELSE IF storage_type = "local"
    THEN {Result("file", Null, TRUE, "none", "none")}
    ELSE IF storage_url = Null \/ storage_url = ""
    THEN {Result(Null, "MISSING_STORAGE_URL", TRUE, "none", "none")}
    ELSE IF storage_type \notin UploadTypes
    THEN {Result(Null, "INVALID_STORAGE_TYPE", TRUE, "none", "none")}
    ELSE UNION {
        CASE h = "url" ->
               {Result("remote", Null, ~delete_local, storage_type,
                       IF delete_local THEN "ok" ELSE "none")}
          [] h = "storage_error" ->
               {Result(Null, "BACKEND_ERROR", ~delete_local, storage_type,
                       IF delete_local THEN "ok" ELSE "none")}
          [] OTHER ->
               {Result(Null, "UPLOAD_ERROR", ~delete_local, storage_type,
                       IF delete_local THEN "ok" ELSE "none")}
        : h \in HandlerOutcomes }

\* variant: the local selection honours delete_local
LocalBranch_deletes(delete_local) ==
    {Result("file", Null, ~delete_local, "none",
            IF delete_local THEN "ok" ELSE "none")}

\* lines 67-68: if storage_type == "local": return f"file://{local_path}"
LocalBranch(delete_local) == {Result("file", Null, TRUE, "none", "none")}

\* variant: only an absent URL is refused, an empty one is not
Falsy_none(storage_url) == storage_url = Null

\* line 70: not storage_url, for None and for the empty string
Falsy(storage_url) == storage_url = Null \/ storage_url = ""

\* variant: the local file is removed whether or not it was requested
DeleteLocal_always(storage_type, delete_local) ==
    {Result("remote", Null, e, storage_type,
            IF e THEN "failed" ELSE "ok") : e \in BOOLEAN}

\* lines 84-92: the handler returned remote_url; the local file is removed
\* when requested, a failure of unlink() is only logged
DeleteLocal(storage_type, delete_local) ==
    IF delete_local
    THEN {Result("remote", Null, e, storage_type,
                 IF e THEN "failed" ELSE "ok") : e \in BOOLEAN}
    ELSE {Result("remote", Null, TRUE, storage_type, "none")}

\* StorageUploader.upload: the set of results it can produce
upload(exists, storage_type, storage_url, delete_local) ==
    IF ~exists
    THEN {Result(Null, "FILE_NOT_FOUND", FALSE, "none", "none")}
    ELSE IF storage_type = "local"
    THEN LocalBranch(delete_local)
    ELSE IF Falsy(storage_url)
    THEN {Result(Null, "MISSING_STORAGE_URL", TRUE, "none", "none")}
    ELSE IF storage_type \notin UploadTypes
    THEN {Result(Null, "INVALID_STORAGE_TYPE", TRUE, "none", "none")}
    ELSE UNION {
        CASE h = "url" -> DeleteLocal(storage_type, delete_local)
          [] h = "storage_error" ->
               {Result(Null, code, TRUE, storage_type, "none") :
                    code \in HandlerErrors(storage_type)}
          [] OTHER ->
               {Result(Null, "UPLOAD_ERROR", TRUE, storage_type, "none")}
        : h \in HandlerOutcomes }

\* ------------------------------------------------------------------------
\* Task Lifecycle Controller: download_video_task (app/tasks.py:47-244)
\* ------------------------------------------------------------------------
NoExc == [code |-> Null, message |-> Null]

\* variant: compares with the name of the enum member, not with its value
IsCancelled_name(status) == status = "CANCELLED"

\* line 90: task.status == TaskStatus.CANCELLED.value
IsCancelled(status) == status = CANCELLED

\* lines 84-92: load the row, return at once when it is CANCELLED
task_entry ==
    /\ pc = "queued"
    /\ pend' = NoPending
    /\ exc' = NoExc
    /\ ticks' = 0
    /\ fileExists' = FALSE
    /\ upl' = "none"
    /\ work' = {}
    /\ IF IsCancelled(db.status)
       THEN pc' = "done" /\ ret' = "cancelled"
       ELSE pc' = "probe" /\ ret' = "none"
    /\ UNCHANGED <<db, retries, cfg, fn, cancelVars, idset, cb>>

\* codes of the DownloadError get_video_info can raise
\* (app/downloader.py:110-120): the library reports the video unavailable,
\* or anything else
ProbeErrorCodes == {"VIDEO_UNAVAILABLE", "EXTRACTION_ERROR"}

\* what a failed probe leaves in the trace of the invocation
ProbeFailed(code) ==
    {"probe", "probe_failed"}
        \cup (IF code = "VIDEO_UNAVAILABLE" THEN {"probe_unavailable"} ELSE {})

\* variant: a failed probe goes to the handler of DownloadError
AfterProbeFailure_fatal == "except_download_error"

\* lines 105-106: except Exception: logger.warning(...), then line 109
AfterProbeFailure == "mark_downloading"

\* lines 96-107: create the downloader, probe the metadata (best effort).
\* VideoDownloader() is outside the inner try: settings.download_path makes
\* the directory and its failure reaches the handler of line 224.
task_probe ==
    /\ pc = "probe"
    /\ \E o \in {"ok", "setup_raises"} \cup ProbeErrorCodes :
        CASE o = "ok" ->
               /\ pend' = SetAttr(pend, "video_title", "title")
               /\ work' = work \cup {"probe"}
               /\ pc' = "mark_downloading"
               /\ exc' = exc
          [] o \in ProbeErrorCodes ->
               /\ work' = work \cup ProbeFailed(o)
               /\ pc' = AfterProbeFailure
               /\ UNCHANGED <<pend, exc>>
          [] OTHER ->
               /\ exc' = [code |-> "UNKNOWN_ERROR", message |-> "str(e)"]
               /\ pc' = "except_exception"
               /\ UNCHANGED <<pend, work>>
    /\ UNCHANGED <<db, ret, retries, ticks, fileExists, upl, cfg, fn, cancelVars,
                   idset, cb>>

\* lines 110-113
task_mark_downloading ==
    /\ pc = "mark_downloading"
    /\ LET p == SetAttr(SetAttr(SetAttr(pend, "status", DOWNLOADING),
                                "started_at", "set"), "celery_task_id", "id")
       IN  db' = Commit(db, p)
    /\ pend' = NoPending
    /\ work' = work \cup {"write"}
    /\ pc' = "download"
    /\ UNCHANGED <<ret, exc, retries, ticks, fileExists, upl, cfg, fn, cancelVars,
                   idset, cb>>

\* progress events of the extraction library
ProgressEvents ==
    [status : {"downloading"}, total : {0, 2}, downloaded : {1, 3}]
        \cup [status : {"finished"}, total : {0}, downloaded : {0}]

\* progress_hook (app/downloader.py:261-278): the percent handed to the
\* progress callback, or -1 when the callback is not called
HookPercent(d) ==
    IF d.status = "downloading"
    THEN IF d.total > 0 THEN (d.downloaded * 100) \div d.total ELSE -1
    ELSE 100

\* variant: the error of the commit leaves the callback and the download
AfterProgressError_raises(p) == "except_exception"

\* lines 119-120: except Exception: logger.warning(...); the download goes on
AfterProgressError(p) == p

\* progress_callback (lines 116-121), called from progress_hook: a commit
\* that raises is logged and swallowed, the change is not written
progress_callback ==
    /\ pc = "download"
    /\ ticks < MaxTicks
    /\ ticks' = ticks + 1
    /\ \E d \in ProgressEvents, commit_ok \in BOOLEAN :
        LET percent == HookPercent(d) IN
        IF percent = -1
        THEN /\ work' = work \cup {"write"}
             /\ UNCHANGED <<db, pend, pc, exc>>
        ELSE IF commit_ok
        THEN /\ db' = Commit(db, SetAttr(pend, "progress", percent))
             /\ pend' = NoPending
             /\ work' = work \cup {"write"}
             /\ UNCHANGED <<pc, exc>>
        ELSE /\ db' = db
             /\ pend' = NoPending
             /\ work' = work \cup {"write", "write_failed"}
             /\ pc' = AfterProgressError(pc)
             /\ exc' = IF pc' = pc THEN exc
                       ELSE [code |-> "UNKNOWN_ERROR", message |-> "str(e)"]
    /\ UNCHANGED <<ret, retries, fileExists, upl, cfg, fn, cancelVars, idset,
                   cb>>

\* variant: the size of the file is not copied
CopyOutcome_nosize(p) ==
    SetAttr(SetAttr(SetAttr(p, "video_title", "title"),
                    "local_path", "path"), "file_name", "name")

\* lines 134-142: the DownloadResult is copied into the task object
CopyOutcome(p) ==
    SetAttr(SetAttr(SetAttr(SetAttr(p, "video_title", "title"),
                            "local_path", "path"),
                    "file_name", "name"), "file_size", "size")

\* variant: every storage type goes through the upload stage
UsesStorage_always(storage_type) == storage_type # Null

\* line 145: if storage_type and storage_type != "local"
UsesStorage(storage_type) == storage_type # Null /\ storage_type # "local"

\* lines 124-142 and 163-165: download() returns a DownloadResult, the
\* outcome is copied into the task object
task_download_ok ==
    /\ pc = "download"
    /\ fileExists' = TRUE
    /\ work' = work \cup {"download"}
    /\ LET p == CopyOutcome(pend)
       IN  IF UsesStorage(cfg.storage_type)
           THEN pend' = p /\ pc' = "mark_uploading"
           ELSE pend' = SetAttr(p, "download_url", "file") /\ pc' = "complete"
    /\ UNCHANGED <<db, ret, exc, retries, ticks, upl, cfg, fn, cancelVars, idset,
                   cb>>

\* download() raises a DownloadError (app/downloader.py:286-344)
task_download_error ==
    /\ pc = "download"
    /\ \E code \in DownloadErrorCodes :
        exc' = [code |-> code, message |-> "e.message"]
    /\ work' = work \cup {"download"}
    /\ pc' = "except_download_error"
    /\ UNCHANGED <<db, pend, ret, retries, ticks, fileExists, upl, cfg, fn,
                   cancelVars, idset, cb>>

\* lines 146-147
task_mark_uploading ==
    /\ pc = "mark_uploading"
    /\ db' = Commit(db, SetAttr(pend, "status", UPLOADING))
    /\ pend' = NoPending
    /\ pc' = "upload"
    /\ UNCHANGED <<ret, exc, retries, ticks, fileExists, upl, work, cfg, fn,
                   cancelVars, idset, cb>>

\* variant: only the errors of a backend are caught
CaughtByController_backend(code) ==
    code \in {"BACKEND_ERROR", "UPLOAD_ERROR", "FILE_NOT_FOUND"}

\* line 158: except StorageError as e, whatever its code
CaughtByController(code) == code # Null

\* lines 149-162: upload_to_storage(..., delete_local=True); a StorageError
\* is caught and the local file becomes the result, anything else reaches
\* the handler of line 224
task_upload ==
    /\ pc = "upload"
    /\ \E r \in upload(fileExists, cfg.storage_type,
                       IF cfg.storage_url THEN "url" ELSE Null, TRUE) :
        /\ fileExists' = r.exists
        /\ upl' = IF r.error = Null THEN "uploaded" ELSE r.error
        /\ IF r.error = Null
           THEN /\ pend' = SetAttr(pend, "download_url", r.value)
                /\ pc' = "complete"
                /\ exc' = exc
           ELSE IF CaughtByController(r.error)
           THEN /\ pend' = SetAttr(SetAttr(pend, "download_url", "file"),
                                   "error_message", "Storage upload failed")
                /\ pc' = "complete"
                /\ exc' = exc
           ELSE /\ pend' = pend
                /\ pc' = "except_exception"
                /\ exc' = [code |-> "UNKNOWN_ERROR", message |-> "str(e)"]
    /\ work' = work \cup {"upload"}
    /\ UNCHANGED <<db, ret, retries, ticks, cfg, fn, cancelVars, idset, cb>>

\* local_path.exists() (app/storage.py:64) is outside the try of upload():
\* an OSError it raises is no StorageError and reaches line 224
task_upload_raises ==
    /\ pc = "upload"
    /\ exc' = [code |-> "UNKNOWN_ERROR", message |-> "str(e)"]
    /\ work' = work \cup {"upload"}
    /\ pc' = "except_exception"
    /\ UNCHANGED <<db, pend, ret, retries, ticks, fileExists, upl, cfg, fn,
                   cancelVars, idset, cb>>

\* lines 168-196
task_complete ==
    /\ pc = "complete"
    /\ LET p == SetAttr(SetAttr(SetAttr(pend, "status", COMPLETED),
                                "progress", 100), "completed_at", "set")
       IN  db' = Commit(db, p)
    /\ pend' = NoPending
    /\ IF cfg.callback_url
       THEN /\ cb' = CbBegin(callback_service, "sync",
                       build_success_payload(db'.download_url))
            /\ work' = work \cup {"callback"}
            /\ pc' = "notify_completed"
            /\ ret' = ret
       ELSE /\ pc' = "done"
            /\ ret' = "completed"
            /\ UNCHANGED <<cb, work>>
    /\ UNCHANGED <<exc, retries, ticks, fileExists, upl, cfg, fn, cancelVars,
                   idset>>

\* variant: the classified code is not recorded
RecordDownloadError_nocode(p, e) ==
    SetAttr(SetAttr(p, "status", FAILED), "error_message", e.message)

\* lines 202-204: the handler of DownloadError records the classified error
RecordDownloadError(p, e) ==
    SetAttr(SetAttr(SetAttr(p, "status", FAILED),
                    "error_code", e.code), "error_message", e.message)

\* lines 198-222
task_except_download_error ==
    /\ pc = "except_download_error"
    /\ db' = Commit(db, RecordDownloadError(pend, exc))
    /\ pend' = NoPending
    /\ IF cfg.callback_url
       THEN /\ cb' = CbBegin(callback_service, "sync",
                       build_failure_payload(exc.code, exc.message))
            /\ work' = work \cup {"callback"}
            /\ pc' = "notify_failed"
            /\ ret' = ret
       ELSE /\ pc' = "done"
            /\ ret' = "failed"
            /\ UNCHANGED <<cb, work>>
    /\ UNCHANGED <<exc, retries, ticks, fileExists, upl, cfg, fn, cancelVars,
                   idset>>

\* variant: the status is left as it was
RecordUnknownError_nostatus(p, e) ==
    SetAttr(SetAttr(p, "error_code", "UNKNOWN_ERROR"),
            "error_message", e.message)

\* lines 228-230: the handler of Exception records UNKNOWN_ERROR
RecordUnknownError(p, e) ==
    SetAttr(SetAttr(SetAttr(p, "status", FAILED),
                    "error_code", "UNKNOWN_ERROR"), "error_message", e.message)

\* lines 224-244
task_except_exception ==
    /\ pc = "except_exception"
    /\ db' = Commit(db, RecordUnknownError(pend, exc))
    /\ pend' = NoPending
    /\ IF cfg.callback_url
       THEN /\ cb' = CbBegin(callback_service, "sync",
                       build_failure_payload("UNKNOWN_ERROR", "str(e)"))
            /\ work' = work \cup {"callback"}
            /\ pc' = "notify_raise"
            /\ ret' = ret
       ELSE /\ pc' = "raised"
            /\ ret' = "raise"
            /\ UNCHANGED <<cb, work>>
    /\ UNCHANGED <<exc, retries, ticks, fileExists, upl, cfg, fn, cancelVars,
                   idset>>

\* variant: a notification that was not delivered turns the result to failed
ReturnValue_delivered(p, result) ==
    CASE p = "notify_completed" ->
            IF result = "true" THEN "completed" ELSE "failed"
      [] p = "notify_failed" -> "failed"
      [] OTHER -> "raise"

\* what the invocation gives back after the notifier call made at position p
\* returned result: the return statements of lines 191-196 and 217-222, the
\* raise of line 244
ReturnValue(p, result) ==
    CASE p = "notify_completed" -> "completed"
      [] p = "notify_failed" -> "failed"
      [] OTHER -> "raise"

\* send_callback_sync has returned to the controller (lines 189, 215, 241).
\* Its boolean is not used.  Were it to raise, line 189 is inside the try
\* (handler of line 224) and lines 215 and 241 are not.
task_notified ==
    /\ pc \in NotifyPcs
    /\ cb.pc = "returned"
    /\ IF cb.result = "raised"
       THEN IF pc = "notify_completed"
            THEN /\ pc' = "except_exception"
                 /\ exc' = [code |-> "UNKNOWN_ERROR", message |-> "str(e)"]
                 /\ ret' = ret
            ELSE pc' = "raised" /\ ret' = "raise" /\ exc' = exc
       ELSE /\ exc' = exc
            /\ ret' = ReturnValue(pc, cb.result)
            /\ pc' = IF ret' = "raise" THEN "raised" ELSE "done"
    /\ cb' = callback_service
    /\ UNCHANGED <<db, pend, retries, ticks, fileExists, upl, work, cfg, fn,
                   cancelVars, idset>>

\* ------------------------------------------------------------------------
\* Work-queue runtime (celery): autoretry_for=(Exception,), max_retries=3
\* ------------------------------------------------------------------------
\* variant: the runtime allows one more re-invocation
MayRetry_once_more(n) == n < TaskMaxRetries + 1

\* autoretry: a re-invocation is scheduled while self.request.retries is
\* below max_retries (app/tasks.py:39-46)
MayRetry(n) == n < TaskMaxRetries

\* the runtime re-invokes the task after it raised (app/tasks.py:39-46)
celery_retry ==
    /\ pc = "raised"
    /\ MayRetry(retries)
    /\ retries' = retries + 1
    /\ pc' = "queued"
    /\ ret' = "none"
    /\ exc' = NoExc
    /\ ticks' = 0
    /\ fileExists' = FALSE
    /\ upl' = "none"
    /\ work' = {}
    /\ cb' = callback_service
    /\ UNCHANGED <<db, pend, cfg, fn, cancelVars, idset>>

\* revoke(terminate=True) takes effect: the worker process is terminated, or
\* the queued invocation is discarded.  Whether and when this happens is up
\* to the runtime (it is not supported by every worker pool).
RunningPcs ==
    {"queued", "probe", "mark_downloading", "download", "mark_uploading",
     "upload", "complete", "except_download_error", "except_exception"}
        \cup NotifyPcs

celery_terminate ==
    /\ revoked
    /\ pc \in RunningPcs
    /\ pc' = "killed"
    /\ pend' = NoPending
    /\ UNCHANGED <<db, ret, exc, retries, ticks, fileExists, upl, work, cfg, fn,
                   cancelVars, idset, cb>>

\* ------------------------------------------------------------------------
\* Submission and cancellation (app/main.py)
\* ------------------------------------------------------------------------
\* create_task, lines 127-128: the id of the queued invocation is stored
\* after the invocation was queued
create_task_store_id ==
    /\ ~idset
    /\ pc # "standalone"
    /\ idset' = TRUE
    /\ db' = [db EXCEPT !.celery_task_id = "id"]
    /\ UNCHANGED <<workerVars, cfg, fn, cancelVars, cb>>

\* the columns cancel_task reads from the row it loaded
NoSnap == [status |-> Null, celery_task_id |-> Null]

\* cancel_task, lines 206-214: query and status check
cancel_task_query ==
    /\ cpc = "idle"
    /\ pc # "standalone"
    /\ cancels < MaxCancels
    /\ cancels' = cancels + 1
    /\ csnap' = [status |-> db.status, celery_task_id |-> db.celery_task_id]
    /\ cpc' = IF db.status \in {COMPLETED, FAILED} THEN "refused" ELSE "revoke"
    /\ UNCHANGED <<db, workerVars, cfg, fn, revoked, idset, cb>>

\* cancel_task, lines 210-214: HTTP 400, nothing is written
cancel_task_refuse ==
    /\ cpc = "refused"
    /\ cpc' = "idle"
    /\ csnap' = NoSnap
    /\ UNCHANGED <<db, workerVars, cfg, fn, cancels, revoked, idset, cb>>

\* cancel_task, lines 217-219
cancel_task_revoke ==
    /\ cpc = "revoke"
    /\ revoked' = (revoked \/ csnap.celery_task_id # Null)
    /\ cpc' = "commit"
    /\ UNCHANGED <<db, workerVars, cfg, fn, csnap, cancels, idset, cb>>

\* cancel_task, lines 221-222
cancel_task_commit ==
    /\ cpc = "commit"
    /\ db' = [db EXCEPT !.status = CANCELLED]
    /\ cpc' = "idle"
    /\ csnap' = NoSnap
    /\ UNCHANGED <<workerVars, cfg, fn, cancels, revoked, idset, cb>>

\* ------------------------------------------------------------------------
\* Specification of the pipeline
\* ------------------------------------------------------------------------
Configs ==
    [callback_url : BOOLEAN, storage_type : StorageTypes,
     storage_url : BOOLEAN]

Init ==
    /\ db = NewRow
    /\ pend = NoPending
    /\ pc = "queued"
    /\ ret = "none"
    /\ exc = NoExc
    /\ retries = 0
    /\ ticks = 0
    /\ fileExists = FALSE
    /\ upl = "none"
    /\ work = {}
    /\ cfg \in Configs
    /\ cpc = "idle"
    /\ csnap = NoSnap
    /\ cancels = 0
    /\ revoked = FALSE
    /\ idset = FALSE
    /\ cb = callback_service
    /\ fn = NoCall

Next ==
    \/ task_entry
    \/ task_probe
    \/ task_mark_downloading
    \/ progress_callback
    \/ task_download_ok
    \/ task_download_error
    \/ task_mark_uploading
    \/ task_upload
    \/ task_upload_raises
    \/ task_complete
    \/ task_except_download_error
    \/ task_except_exception
    \/ task_notified
    \/ send_callback_attempt
    \/ celery_retry
    \/ celery_terminate
    \/ create_task_store_id
    \/ cancel_task_query
    \/ cancel_task_refuse
    \/ cancel_task_revoke
    \/ cancel_task_commit

Spec == Init /\ [][Next]_vars

\* ------------------------------------------------------------------------
\* Specification of the Callback Notifier alone: a service constructed with
\* any max_retries argument, called in either calling convention
\* ------------------------------------------------------------------------
RetriesArgs == {-1} \cup 0..MaxRetriesArg

Payloads ==
    {build_success_payload("file"),
     build_failure_payload("UNKNOWN_ERROR", "str(e)")}

\* send_callback_sync(url, payload) or send_callback_async(url, payload)
send_callback_call ==
    /\ pc = "standalone"
    /\ cb.pc = "idle"
    /\ \E conv \in {"sync", "async"}, payload \in Payloads :
        cb' = CbBegin(cb, conv, payload)
    /\ UNCHANGED <<db, workerVars, cfg, fn, cancelVars, idset>>

CbInit ==
    /\ db = NewRow
    /\ pend = NoPending
    /\ pc = "standalone"
    /\ ret = "none"
    /\ exc = NoExc
    /\ retries = 0
    /\ ticks = 0
    /\ fileExists = FALSE
    /\ upl = "none"
    /\ work = {}
    /\ cfg = [callback_url |-> TRUE, storage_type |-> "local",
              storage_url |-> FALSE]
    /\ cpc = "idle"
    /\ csnap = NoSnap
    /\ cancels = 0
    /\ revoked = FALSE
    /\ idset = FALSE
    /\ \E arg \in RetriesArgs : cb = CallbackService(arg)
    /\ fn = NoCall

CbNext ==
    \/ send_callback_call
    \/ send_callback_attempt

CbSpec == CbInit /\ [][CbNext]_vars

\* ------------------------------------------------------------------------
\* Components exercised on their own: the pipeline is not running
\* ------------------------------------------------------------------------
Standalone ==
    /\ db = NewRow
    /\ pend = NoPending
    /\ pc = "standalone"
    /\ ret = "none"
    /\ exc = NoExc
    /\ retries = 0
    /\ ticks = 0
    /\ fileExists = FALSE
    /\ upl = "none"
    /\ work = {}
    /\ cfg = [callback_url |-> TRUE, storage_type |-> "local",
              storage_url |-> FALSE]
    /\ cpc = "idle"
    /\ csnap = NoSnap
    /\ cancels = 0
    /\ revoked = FALSE
    /\ idset = FALSE

\* ------------------------------------------------------------------------
\* Specification of the two calling conventions side by side: two services
\* built with the same max_retries argument, send_callback_sync called on
\* one (cb) and send_callback_async on the other (fn.c), with the same
\* payload, each attempt of both meeting the same outcome
\* ------------------------------------------------------------------------
twin_call ==
    /\ pc = "standalone"
    /\ fn.op = "async_twin"
    /\ cb.pc = "idle" /\ fn.c.pc = "idle"
    /\ \E payload \in Payloads :
        /\ cb' = CbBegin(cb, "sync", payload)
        /\ fn' = [fn EXCEPT !.c = CbBegin(fn.c, "async", payload)]
    /\ UNCHANGED <<db, workerVars, cfg, cancelVars, idset>>

twin_attempt ==
    /\ pc = "standalone"
    /\ fn.op = "async_twin"
    /\ cb.pc = "loop" \/ fn.c.pc = "loop"
    /\ \E o \in Outcomes :
        /\ cb' = IF cb.pc = "loop" THEN SyncIteration(cb, o) ELSE cb
        /\ fn' = [fn EXCEPT
                    !.c = IF fn.c.pc = "loop" THEN AsyncIteration(fn.c, o)
                          ELSE fn.c]
    /\ UNCHANGED <<db, workerVars, cfg, cancelVars, idset>>

EqInit ==
    /\ Standalone
    /\ \E arg \in RetriesArgs :
        /\ cb = CallbackService(arg)
        /\ fn = [op |-> "async_twin", c |-> CallbackService(arg)]

EqNext ==
    \/ twin_call
    \/ twin_attempt

EqSpec == EqInit /\ [][EqNext]_vars

\* ------------------------------------------------------------------------
\* Specification of the Download Orchestrator alone: one call of
\* VideoDownloader.download (app/downloader.py:200-344)
\* ------------------------------------------------------------------------
\* settings.max_file_size = 5 * 1024 * 1024 * 1024 bytes, written here in
\* KiB; a byte size is the pair (kib, b) of its quotient and its remainder
\* by 1024, so that sizes around the limit stay within machine integers
max_file_size == 5 * 1024 * 1024

\* sizes of the produced file: empty, one byte under the limit, the limit,
\* one byte over it
FileSizes ==
    {[kib |-> 0, b |-> 0],
     [kib |-> max_file_size - 1, b |-> 1023],
     [kib |-> max_file_size, b |-> 0],
     [kib |-> max_file_size, b |-> 1]}

\* variant: a file of exactly the limit is refused as well
Exceeds_inclusive(size) == size.kib >= max_file_size

\* line 318: file_size > settings.max_file_size
Exceeds(size) ==
    size.kib > max_file_size \/ (size.kib = max_file_size /\ size.b > 0)

\* progress events the extraction library may deliver for the streams of
\* one item: the total may be unknown (0) or an estimate that changes, the
\* downloaded count may pass it
StreamEvents ==
    [status : {"downloading"}, total : {0, 2, 4}, downloaded : 0..5]
        \cup [status : {"finished"}, total : {0}, downloaded : {0}]

NoSize == [kib |-> 0, b |-> 0]

\* download() is called: the hooks are installed, extract_info is running
Download ==
    [op |-> "download", at |-> "extract_info", events |-> 0,
     percents |-> <<>>, downloaded_file |-> FALSE, size |-> NoSize,
     exists |-> FALSE, result |-> "none"]

\* progress_hook(d) (lines 261-278), called by the library during
\* extract_info
progress_hook ==
    /\ fn.op = "download"
    /\ fn.at = "extract_info"
    /\ fn.events < MaxEvents
    /\ \E d \in StreamEvents :
        fn' = [fn EXCEPT
                !.events = @ + 1,
                !.percents = IF HookPercent(d) = -1 THEN @
                             ELSE Append(@, HookPercent(d)),
                !.downloaded_file = @ \/ d.status = "finished"]
    /\ UNCHANGED <<db, workerVars, cfg, cancelVars, idset, cb>>

\* extract_info raises, or returns None (lines 283-287, 332-344)
extract_info_fails ==
    /\ fn.op = "download"
    /\ fn.at = "extract_info"
    /\ \E code \in {"VIDEO_UNAVAILABLE", "RATE_LIMITED", "DOWNLOAD_ERROR",
                    "UNKNOWN_ERROR"} :
        fn' = [fn EXCEPT !.at = "raised", !.result = code]
    /\ UNCHANGED <<db, workerVars, cfg, cancelVars, idset, cb>>

\* extract_info returns and no file is found, neither at the path of the
\* "finished" event nor by _find_downloaded_file (lines 305-313)
file_not_found ==
    /\ fn.op = "download"
    /\ fn.at = "extract_info"
    /\ fn' = [fn EXCEPT !.at = "raised", !.result = "FILE_NOT_FOUND"]
    /\ UNCHANGED <<db, workerVars, cfg, cancelVars, idset, cb>>

\* extract_info returns and the produced file is resolved (lines 305-315)
file_resolved ==
    /\ fn.op = "download"
    /\ fn.at = "extract_info"
    /\ \E size \in FileSizes :
        fn' = [fn EXCEPT !.at = "size_check", !.size = size,
                         !.exists = TRUE]
    /\ UNCHANGED <<db, workerVars, cfg, cancelVars, idset, cb>>

\* lines 317-330: the size check, then the return of the DownloadResult
size_check ==
    /\ fn.op = "download"
    /\ fn.at = "size_check"
    /\ fn' = IF Exceeds(fn.size)
             THEN [fn EXCEPT !.exists = FALSE, !.at = "raised",
                             !.result = "FILE_TOO_LARGE"]
             ELSE [fn EXCEPT !.at = "returned",
                             !.result = "DownloadResult"]
    /\ UNCHANGED <<db, workerVars, cfg, cancelVars, idset, cb>>

DlInit ==
    /\ Standalone
    /\ cb = callback_service
    /\ fn = Download

DlNext ==
    \/ progress_hook
    \/ extract_info_fails
    \/ file_not_found
    \/ file_resolved
    \/ size_check

DlSpec == DlInit /\ [][DlNext]_vars

\* ------------------------------------------------------------------------
\* Specification of the Storage Dispatcher alone: one call of
\* StorageUploader.upload(local_path, storage_type, storage_url,
\* delete_local) (app/storage.py:42-97)
\* ------------------------------------------------------------------------
\* storage_url as the caller may pass it: None, empty, or a destination
StorageUrls == {Null, "", "url"}

NoResult == Result(Null, Null, FALSE, "none", "none")

\* upload() runs to its return or to the StorageError it raises
upload_call ==
    /\ fn.op = "upload"
    /\ fn.at = "called"
    /\ \E r \in upload(fn.exists, fn.storage_type, fn.storage_url,
                       fn.delete_local) :
        fn' = [fn EXCEPT !.at = "done", !.r = r]
    /\ UNCHANGED <<db, workerVars, cfg, cancelVars, idset, cb>>

StInit ==
    /\ Standalone
    /\ cb = callback_service
    /\ \E exists \in BOOLEAN, storage_type \in StorageTypes \cup UploadTypes,
          storage_url \in StorageUrls, delete_local \in BOOLEAN :
        fn = [op |-> "upload", at |-> "called", exists |-> exists,
              storage_type |-> storage_type, storage_url |-> storage_url,
              delete_local |-> delete_local, r |-> NoResult]

StNext == upload_call

StSpec == StInit /\ [][StNext]_vars

\* ------------------------------------------------------------------------
\* Destination URLs and object keys (app/storage.py:99-193, 203-207,
\* 238-240, 271-273, 311-313).  A string is the sequence of its pieces: a
\* "/" is a piece of its own, the other pieces are words without a slash.
\* ------------------------------------------------------------------------
RECURSIVE LStrip(_)
\* s.lstrip("/")
LStrip(s) == IF s # <<>> /\ Head(s) = "/" THEN LStrip(Tail(s)) ELSE s

RECURSIVE RStrip(_)
\* s.rstrip("/")
RStrip(s) ==
    IF s # <<>> /\ s[Len(s)] = "/"
    THEN RStrip(SubSeq(s, 1, Len(s) - 1))
    ELSE s

\* s.strip("/")
Strip(s) == LStrip(RStrip(s))

\* s.startswith(pre)
StartsWith(s, pre) == Len(s) >= Len(pre) /\ SubSeq(s, 1, Len(pre)) = pre

\* s.split(sep, 1): the part before the first sep and, if there is one, the
\* part after it
Split1(s, sep) ==
    IF \E i \in 1..Len(s) : s[i] = sep
    THEN LET i == CHOOSE k \in 1..Len(s) :
                    s[k] = sep /\ \A j \in 1..(k - 1) : s[j] # sep
         IN  <<SubSeq(s, 1, i - 1), SubSeq(s, i + 1, Len(s))>>
    ELSE <<s>>

Parsed(error, bucket, prefix, endpoint_url) ==
    [error |-> error, bucket |-> bucket, prefix |-> prefix,
     endpoint_url |-> endpoint_url]

\* _parse_s3_url / _parse_gcs_url (lines 99-142), which differ by the
\* scheme and by the error code only
ParseBucketUrl(storage_url, scheme, code) ==
    LET u == RStrip(storage_url) IN
    IF StartsWith(u, <<scheme, "/", "/">>)
    THEN LET path == SubSeq(u, 4, Len(u))
             parts == Split1(path, "/")
         IN  Parsed(Null, parts[1],
                    IF Len(parts) > 1 THEN parts[2] ELSE <<>>, <<>>)
    ELSE Parsed(code, <<>>, <<>>, <<>>)

\* variant: the trailing slashes of the URL are kept
parse_s3_url_keeps_slash(storage_url) ==
    IF StartsWith(storage_url, <<"s3:", "/", "/">>)
    THEN LET path == SubSeq(storage_url, 4, Len(storage_url))
             parts == Split1(path, "/")
         IN  Parsed(Null, parts[1],
                    IF Len(parts) > 1 THEN parts[2] ELSE <<>>, <<>>)
    ELSE Parsed("INVALID_S3_URL", <<>>, <<>>, <<>>)

parse_s3_url(storage_url) ==
    ParseBucketUrl(storage_url, "s3:", "INVALID_S3_URL")

parse_gcs_url(storage_url) ==
    ParseBucketUrl(storage_url, "gs:", "INVALID_GCS_URL")

\* _parse_s3_compatible_url (lines 144-193) on the result of urlparse:
\* parsed.scheme, parsed.hostname, parsed.path (no port, no credentials)
parse_s3_compatible_url(parsed) ==
    LET hostname == parsed.hostname
        oss == (\E i \in 1..Len(hostname) : hostname[i] = ".oss-")
                /\ hostname # <<>>
                /\ hostname[Len(hostname)] = ".aliyuncs.com"
        halves == Split1(hostname, ".oss-")
        path_parts == Split1(Strip(parsed.path), "/")
        bucket == IF oss THEN halves[1] ELSE path_parts[1]
        prefix == IF oss THEN Strip(parsed.path)
                  ELSE IF Len(path_parts) > 1 THEN path_parts[2] ELSE <<>>
        endpoint_url ==
            IF oss
            THEN <<parsed.scheme, "oss-">> \o Split1(halves[2], ".oss-")[1]
            ELSE <<parsed.scheme>> \o hostname
    IN  IF bucket = <<>>
        THEN Parsed("INVALID_S3_URL", <<>>, <<>>, <<>>)
        ELSE Parsed(Null, bucket, prefix, endpoint_url)

\* "aliyuncs.com" in config["endpoint_url"] (line 260)
IsAliyun(endpoint_url) ==
    \E i \in 1..Len(endpoint_url) : endpoint_url[i] = ".aliyuncs.com"

\* key = f"{prefix}/{local_path.name}" if prefix else local_path.name
\* key = key.lstrip("/")
ObjectKey(prefix, name) ==
    LStrip(IF prefix # <<>> THEN prefix \o <<"/">> \o name ELSE name)

\* local_path.name of the uploaded file
FileName == <<"clip.mp4">>

\* sequences over S of length at most n
SeqUpTo(S, n) == UNION {[1..k -> S] : k \in 0..n}

\* destination URLs tried for the S3 and GCS handlers: a scheme, then up to
\* MaxUrlLen pieces
BucketUrls ==
    {<<scheme>> \o t : scheme \in {"s3:", "gs:"},
                       t \in SeqUpTo({"/", "bkt", "dir"}, MaxUrlLen)}

\* host names tried for the S3-compatible handler
Hostnames ==
    {<<"minio">>,
     <<"bkt", ".oss-", "cn", ".aliyuncs.com">>,
     <<"oss-cn", ".aliyuncs.com">>,
     <<".oss-", "cn", ".aliyuncs.com">>}

\* destination URLs tried for the S3-compatible handler, as urlparse
\* returns them
EndpointUrls ==
    [scheme : {"https:"}, hostname : Hostnames,
     path : SeqUpTo({"/", "bkt", "dir"}, MaxUrlLen - 2)]

NoKey ==
    [error |-> Null, prefix |-> <<>>, key |-> <<>>, handler |-> "none"]

\* the handler selected by upload() parses the destination and builds the
\* key (lines 203-207, 238-240, 256-273, 311-313)
handler_key ==
    /\ fn.op = "key"
    /\ fn.at = "called"
    /\ LET p == CASE fn.storage_type = "s3" -> parse_s3_url(fn.storage_url)
                  [] fn.storage_type = "gcs" -> parse_gcs_url(fn.storage_url)
                  [] OTHER -> parse_s3_compatible_url(fn.storage_url)
           handler == IF fn.storage_type = "s3_compatible"
                         /\ p.error = Null /\ IsAliyun(p.endpoint_url)
                      THEN "oss_native" ELSE fn.storage_type
       IN  fn' = [fn EXCEPT
                    !.at = "done",
                    !.r = IF p.error # Null
                          THEN [NoKey EXCEPT !.error = p.error,
                                             !.handler = handler]
                          ELSE [error |-> Null, prefix |-> p.prefix,
                                key |-> ObjectKey(p.prefix, FileName),
                                handler |-> handler]]
    /\ UNCHANGED <<db, workerVars, cfg, cancelVars, idset, cb>>

KeyInit ==
    /\ Standalone
    /\ cb = callback_service
    /\ \E storage_type \in UploadTypes :
        \E storage_url \in (IF storage_type = "s3_compatible"
                            THEN EndpointUrls ELSE BucketUrls) :
            fn = [op |-> "key", at |-> "called",
                  storage_type |-> storage_type,
                  storage_url |-> storage_url, r |-> NoKey]

KeyNext == handler_key

KeySpec == KeyInit /\ [][KeyNext]_vars

\* ------------------------------------------------------------------------
\* Specification of the Format Policy alone: one call of
\* VideoDownloader._build_format_spec (app/downloader.py:137-198).  A format
\* expression is the sequence of its pieces.
\* ------------------------------------------------------------------------
\* download_type: the three documented values and an unknown one
DownloadTypes == {"audio", "video", "audio_video", "other"}

\* video_quality: best, worst, or a resolution
VideoQualities == {"best", "worst", "480", "720", "1080", "1440", "2160"}

\* format_spec: None, the empty string, or an expression
NoOverride == [given |-> FALSE, text |-> <<>>]

Overrides ==
    {NoOverride, [given |-> TRUE, text |-> <<>>],
     [given |-> TRUE, text |-> <<"custom">>]}

\* variant: any string that is not None counts as provided
Truthy_given(format_spec) == format_spec.given

\* line 159: if format_spec, false for None and for the empty string
Truthy(format_spec) == format_spec.given /\ format_spec.text # <<>>

build_format_spec(download_type, video_quality, format_spec) ==
    IF Truthy(format_spec) THEN format_spec.text
    ELSE IF download_type = "audio" THEN <<"bestaudio/best">>
    ELSE IF download_type = "video"
    THEN IF video_quality = "best" THEN <<"bestvideo/best">>
         ELSE IF video_quality = "worst" THEN <<"worstvideo/worst">>
         ELSE <<"bestvideo[height<=", video_quality, "]/", "bestvideo/",
                "best[height<=", video_quality, "]/", "best">>
    ELSE IF video_quality = "best"
         THEN <<"bestvideo+bestaudio/bestvideo*+bestaudio/best">>
         ELSE IF video_quality = "worst"
         THEN <<"worstvideo+worstaudio/worst">>
         ELSE <<"bestvideo[height<=", video_quality, "]+bestaudio/",
                "bestvideo+bestaudio/", "best[height<=", video_quality,
                "]/", "best">>

\* download() computes the format expression (line 233)
format_call ==
    /\ fn.op = "format"
    /\ fn.at = "called"
    /\ fn' = [fn EXCEPT
                !.at = "done",
                !.r = build_format_spec(fn.download_type, fn.video_quality,
                                        fn.format_spec)]
    /\ UNCHANGED <<db, workerVars, cfg, cancelVars, idset, cb>>

FmtInit ==
    /\ Standalone
    /\ cb = callback_service
    /\ \E download_type \in DownloadTypes, video_quality \in VideoQualities,
          format_spec \in Overrides :
        fn = [op |-> "format", at |-> "called",
              download_type |-> download_type,
              video_quality |-> video_quality,
              format_spec |-> format_spec, r |-> <<>>]

FmtNext == format_call

FmtSpec == FmtInit /\ [][FmtNext]_vars

\* ------------------------------------------------------------------------
\* Specification of the pipeline alone with a database whose commits can
\* raise: no cancel request, every db.commit() of the controller either
\* succeeds (the actions above) or raises (the two actions below)
\* ------------------------------------------------------------------------
\* db.commit() of line 113, 147 or 171 raises: the statement is inside the
\* try of line 94, control passes to the handler of line 224
task_commit_raises ==
    /\ pc \in {"mark_downloading", "mark_uploading", "complete"}
    /\ pc' = "except_exception"
    /\ exc' = [code |-> "UNKNOWN_ERROR", message |-> "str(e)"]
    /\ pend' = NoPending
    /\ UNCHANGED <<db, ret, retries, ticks, fileExists, upl, work, cfg, fn,
                   cancelVars, idset, cb>>

\* db.commit() of line 205 or 231 raises: the statement is inside a handler,
\* the exception leaves the controller before any callback is sent
handler_commit_raises ==
    /\ pc \in {"except_download_error", "except_exception"}
    /\ pc' = "raised"
    /\ ret' = "raise"
    /\ pend' = NoPending
    /\ UNCHANGED <<db, exc, retries, ticks, fileExists, upl, work, cfg, fn,
                   cancelVars, idset, cb>>

DbFaultInit == Init

DbFaultNext ==
    \/ task_entry
    \/ task_probe
    \/ task_mark_downloading
    \/ progress_callback
    \/ task_download_ok
    \/ task_download_error
    \/ task_mark_uploading
    \/ task_upload
    \/ task_upload_raises
    \/ task_complete
    \/ task_except_download_error
    \/ task_except_exception
    \/ task_notified
    \/ send_callback_attempt
    \/ celery_retry
    \/ create_task_store_id
    \/ task_commit_raises
    \/ handler_commit_raises

DbFaultSpec == DbFaultInit /\ [][DbFaultNext]_vars

\* ------------------------------------------------------------------------
\* Error classification (app/downloader.py:110-120 and 332-344) alone: the
\* text of a yt_dlp.utils.DownloadError is the set of the phrases it
\* contains; get_video_info and download each turn it into a code
\* ------------------------------------------------------------------------
Phrases ==
    {"Video unavailable", "Private video", "Unsupported URL",
     "HTTP Error 429", "rate limit", "Rate Limit"}

\* str.lower() on a phrase
LowerPhrase(m) ==
    CASE m = "Video unavailable" -> "video unavailable"
      [] m = "Private video" -> "private video"
      [] m = "Unsupported URL" -> "unsupported url"
      [] m = "HTTP Error 429" -> "http error 429"
      [] OTHER -> "rate limit"

\* error_msg.lower()
Lower(error_msg) == {LowerPhrase(m) : m \in error_msg}

\* get_video_info, lines 110-117
classify_info(error_msg) ==
    IF "Video unavailable" \in error_msg \/ "Private video" \in error_msg
    THEN "VIDEO_UNAVAILABLE"
    ELSE IF "Unsupported URL" \in error_msg
    THEN "UNSUPPORTED_SITE"
    ELSE "EXTRACTION_ERROR"

\* download, lines 332-339
classify_download(error_msg) ==
    IF "Video unavailable" \in error_msg
    THEN "VIDEO_UNAVAILABLE"
    ELSE IF "HTTP Error 429" \in error_msg
                \/ "rate limit" \in Lower(error_msg)
    THEN "RATE_LIMITED"
    ELSE "DOWNLOAD_ERROR"

\* the except clause of the phase turns the library's error into a code
classify_call ==
    /\ fn.op = "classify"
    /\ fn.at = "called"
    /\ fn' = [fn EXCEPT
                !.at = "done",
                !.code = IF fn.phase = "probe"
                         THEN classify_info(fn.error_msg)
                         ELSE classify_download(fn.error_msg)]
    /\ UNCHANGED <<db, workerVars, cfg, cancelVars, idset, cb>>

ClsInit ==
    /\ Standalone
    /\ cb = callback_service
    /\ \E phase \in {"probe", "download"}, error_msg \in SUBSET Phrases :
        fn = [op |-> "classify", at |-> "called", phase |-> phase,
              error_msg |-> error_msg, code |-> Null]

ClsNext == classify_call

ClsSpec == ClsInit /\ [][ClsNext]_vars

\* ------------------------------------------------------------------------
\* File resolution of download() alone (app/downloader.py:261-313, 346-355):
\* the "finished" events of one call, then the choice of the produced file
\* among the entries of the download directory
\* ------------------------------------------------------------------------
\* names in the download directory: two carry the unique_id of this call
\* (the merged file and one stream of it), one belongs to another call
FileNames == {"title_id.mp4", "title_id.f1.mp4", "other_xx.mp4"}

\* line 352: unique_id in file.name
ContainsId(name) == name \in {"title_id.mp4", "title_id.f1.mp4"}

\* d.get("filename") of a "finished" event: a name, or None
Filenames == FileNames \cup {Null}

\* sequences over S of length at most n
SeqsUpTo(S, n) == UNION {[1..k -> S] : k \in 0..n}

\* what self.download_dir.iterdir() yields: each entry once, in the order
\* of the directory
Listings ==
    {l \in SeqsUpTo(FileNames, Cardinality(FileNames)) :
        \A i, j \in 1..Len(l) : l[i] = l[j] => i = j}

\* os.path.exists / Path.exists for a name of the download directory
Exists(name, dir) == \E i \in 1..Len(dir) : dir[i] = name

\* variant: the first entry of the directory is taken whatever its name
find_downloaded_file_any(dir) ==
    IF dir = <<>> THEN Null ELSE dir[1]

\* _find_downloaded_file (lines 346-355): the first entry whose name
\* contains unique_id, None when there is none
find_downloaded_file(dir) ==
    IF \E i \in 1..Len(dir) : ContainsId(dir[i])
    THEN dir[CHOOSE i \in 1..Len(dir) :
                /\ ContainsId(dir[i])
                /\ \A j \in 1..(i - 1) : ~ContainsId(dir[j])]
    ELSE Null

\* lines 305-310: the path of the last "finished" event when it exists,
\* otherwise the result of the scan
ResolveFile(downloaded_file, dir) ==
    IF downloaded_file # Null /\ Exists(downloaded_file, dir)
    THEN downloaded_file
    ELSE find_downloaded_file(dir)

\* progress_hook for a "finished" event (lines 274-275): the reported name
\* replaces the one kept so far
finished_hook ==
    /\ fn.op = "resolve"
    /\ fn.at = "extract_info"
    /\ fn.events # <<>>
    /\ fn' = [fn EXCEPT !.events = Tail(@),
                        !.downloaded_file = Head(fn.events),
                        !.finished = @ + 1]
    /\ UNCHANGED <<db, workerVars, cfg, cancelVars, idset, cb>>

\* extract_info has returned (lines 305-313): the file is resolved or the
\* call raises FILE_NOT_FOUND
resolve_file ==
    /\ fn.op = "resolve"
    /\ fn.at = "extract_info"
    /\ fn.events = <<>>
    /\ LET file_path == ResolveFile(fn.downloaded_file, fn.dir) IN
        fn' = IF file_path = Null \/ ~Exists(file_path, fn.dir)
              THEN [fn EXCEPT !.at = "raised", !.result = "FILE_NOT_FOUND"]
              ELSE [fn EXCEPT !.at = "resolved", !.file_path = file_path]
    /\ UNCHANGED <<db, workerVars, cfg, cancelVars, idset, cb>>

ResInit ==
    /\ Standalone
    /\ cb = callback_service
    /\ \E events \in SeqsUpTo(Filenames, MaxFinished), dir \in Listings :
        fn = [op |-> "resolve", at |-> "extract_info", events |-> events,
              finished |-> 0, downloaded_file |-> Null, dir |-> dir,
              file_path |-> Null, result |-> "none"]

ResNext ==
    \/ finished_hook
    \/ resolve_file

ResSpec == ResInit /\ [][ResNext]_vars

\* ------------------------------------------------------------------------
\* Credentials of an upload to the S3-compatible backend alone
\* (app/storage.py:159-160, 277-284, 305-309).  A value is known by where
\* it comes from; a source that is absent or empty is falsy.
\* ------------------------------------------------------------------------
\* what can be present: the user name and the password of the URL, and the
\* four environment variables
CredentialInputs ==
    [username : BOOLEAN, password : BOOLEAN,
     OSS_ACCESS_KEY_ID : BOOLEAN, OSS_ACCESS_KEY_SECRET : BOOLEAN,
     AWS_ACCESS_KEY_ID : BOOLEAN, AWS_SECRET_ACCESS_KEY : BOOLEAN]

\* a or b or c, each operand given as (truthy, value); None when all are
\* falsy
Or3(a, av, b, bv, c, cv) ==
    IF a THEN av ELSE IF b THEN bv ELSE IF c THEN cv ELSE Null

\* lines 277-284: the keyword arguments of boto3.client; None for both
\* leaves the choice to the SDK's default chain
generic_credentials(e) ==
    [access_key |-> Or3(e.username, "url", e.AWS_ACCESS_KEY_ID, "aws_env",
                        FALSE, Null),
     secret_key |-> Or3(e.password, "url", e.AWS_SECRET_ACCESS_KEY,
                        "aws_env", FALSE, Null),
     error |-> Null]

\* lines 305-309: the arguments of oss2.Auth, or MISSING_CREDENTIALS
oss_credentials(e) ==
    LET access_key == Or3(e.username, "url", e.OSS_ACCESS_KEY_ID, "oss_env",
                          e.AWS_ACCESS_KEY_ID, "aws_env")
        secret_key == Or3(e.password, "url", e.OSS_ACCESS_KEY_SECRET,
                          "oss_env", e.AWS_SECRET_ACCESS_KEY, "aws_env")
    IN  IF access_key = Null \/ secret_key = Null
        THEN [access_key |-> Null, secret_key |-> Null,
              error |-> "MISSING_CREDENTIALS"]
        ELSE [access_key |-> access_key, secret_key |-> secret_key,
              error |-> Null]

NoCredentials == [access_key |-> Null, secret_key |-> Null, error |-> Null]

\* the handler resolves the credentials it hands to its SDK
credentials_call ==
    /\ fn.op = "credentials"
    /\ fn.at = "called"
    /\ fn' = [fn EXCEPT
                !.at = "done",
                !.r = IF fn.handler = "oss_native"
                      THEN oss_credentials(fn.inputs)
                      ELSE generic_credentials(fn.inputs)]
    /\ UNCHANGED <<db, workerVars, cfg, cancelVars, idset, cb>>

CredInit ==
    /\ Standalone
    /\ cb = callback_service
    /\ \E handler \in {"s3_compatible", "oss_native"},
          inputs \in CredentialInputs :
        fn = [op |-> "credentials", at |-> "called", handler |-> handler,
              inputs |-> inputs, r |-> NoCredentials]

CredNext == credentials_call

CredSpec == CredInit /\ [][CredNext]_vars

\* ------------------------------------------------------------------------
\* The S3 handler alone, called by upload() (app/storage.py:73-97, 195-225):
\* parse, transfer, bucket-location lookup, returned URL
\* ------------------------------------------------------------------------
\* what a call of the SDK client can do: return, raise ClientError, raise
\* anything else
SdkOutcomes == {"ok", "client_error", "exception"}

\* the error upload() raises for a call of the SDK that did not return:
\* lines 222-224 (the vendor's code is embedded) and lines 94-97
SdkError(o) == IF o = "client_error" THEN "BACKEND_ERROR" ELSE "UPLOAD_ERROR"

\* lines 197-207: import of the SDK, parse of the destination, key
s3_begin ==
    /\ fn.op = "s3"
    /\ fn.at = "called"
    /\ \E import_ok \in BOOLEAN :
        LET p == parse_s3_url(fn.storage_url) IN
        fn' = IF ~import_ok
              THEN [fn EXCEPT !.at = "raised", !.error = "MISSING_DEPENDENCY"]
              ELSE IF p.error # Null
              THEN [fn EXCEPT !.at = "raised", !.error = p.error]
              ELSE [fn EXCEPT !.at = "upload_file",
                              !.key = ObjectKey(p.prefix, FileName)]
    /\ UNCHANGED <<db, workerVars, cfg, cancelVars, idset, cb>>

\* lines 212-213: s3_client.upload_file stores the object or raises
s3_upload_file ==
    /\ fn.op = "s3"
    /\ fn.at = "upload_file"
    /\ \E o \in SdkOutcomes :
        fn' = IF o = "ok"
              THEN [fn EXCEPT !.at = "get_bucket_location", !.stored = TRUE]
              ELSE [fn EXCEPT !.at = "raised", !.error = SdkError(o)]
    /\ UNCHANGED <<db, workerVars, cfg, cancelVars, idset, cb>>

\* lines 215-220 and 84-92: the lookup of the region for the returned URL,
\* inside the same try as the transfer; then the removal of the local file
s3_get_bucket_location ==
    /\ fn.op = "s3"
    /\ fn.at = "get_bucket_location"
    /\ \E o \in SdkOutcomes, unlink_ok \in BOOLEAN :
        fn' = IF o = "ok"
              THEN [fn EXCEPT !.at = "returned", !.value = "remote",
                              !.exists = ~(fn.delete_local /\ unlink_ok)]
              ELSE [fn EXCEPT !.at = "raised", !.error = SdkError(o)]
    /\ UNCHANGED <<db, workerVars, cfg, cancelVars, idset, cb>>

S3Init ==
    /\ Standalone
    /\ cb = callback_service
    /\ \E storage_url \in BucketUrls, delete_local \in BOOLEAN :
        fn = [op |-> "s3", at |-> "called", storage_url |-> storage_url,
              delete_local |-> delete_local, key |-> <<>>, stored |-> FALSE,
              exists |-> TRUE, value |-> Null, error |-> Null]

S3Next ==
    \/ s3_begin
    \/ s3_upload_file
    \/ s3_get_bucket_location

S3Spec == S3Init /\ [][S3Next]_vars

\* ========================================================================
\* Claims
\* ========================================================================
\* a step of the worker that leaves position p (not its termination by the
\* runtime)
WorkerLeaves(p) == pc = p /\ pc' # p /\ pc' # "killed"

Rank(st) ==
    CASE st = PENDING -> 0
      [] st = DOWNLOADING -> 1
      [] st = UPLOADING -> 2
      [] OTHER -> 3

\* C1: the persisted status only moves forward along PENDING -> DOWNLOADING
\* -> UPLOADING -> COMPLETED | FAILED, or to CANCELLED from a non-terminal
\* status, and never leaves COMPLETED, FAILED or CANCELLED.
C1_StatusOnlyMovesForward ==
    [][ \/ db'.status = db.status
        \/ /\ db.status \notin Terminal
           /\ \/ db'.status = CANCELLED
              \/ Rank(db'.status) > Rank(db.status) ]_vars

\* C2: once the persisted status is COMPLETED, FAILED or CANCELLED, no step
\* writes the result fields or the error fields of the row.
C2_TerminalFieldsFrozen ==
    [][ db.status \in Terminal =>
            \A f \in ResultFields \cup ErrorFields : db'[f] = db[f] ]_vars

\* C3: an invocation that finds the persisted status CANCELLED returns at
\* once: no probe, download, upload, callback or write is done by it, the
\* row is not changed by it and the status stays CANCELLED.
C3_CancelledEntryIsNoOp ==
    /\ [][ (WorkerLeaves("queued") /\ db.status = CANCELLED) =>
             (pc' = "done" /\ ret' = "cancelled" /\ db' = db
              /\ work' = {} /\ pend' = NoPending /\ cb' = cb) ]_vars
    /\ [](ret = "cancelled" =>
             (pc = "done" /\ work = {} /\ pend = NoPending
              /\ cb.pc = "idle" /\ db.status = CANCELLED))

C3_Witness ==
    /\ ret = "cancelled"
    /\ pc = "done"
    /\ db.status = CANCELLED
    /\ cpc = "idle"

\* C4: cancel_task never replaces a persisted COMPLETED or FAILED status by
\* CANCELLED, whatever the interleaving of its query and its commit with the
\* worker.
C4_CancelKeepsCompletedAndFailed ==
    [][ db.status \in {COMPLETED, FAILED} => db'.status # CANCELLED ]_vars

StorageErrorCodes ==
    {"FILE_NOT_FOUND", "MISSING_STORAGE_URL", "INVALID_STORAGE_TYPE",
     "MISSING_DEPENDENCY", "MISSING_CREDENTIALS", "BACKEND_ERROR",
     "UPLOAD_ERROR"}

\* C5: after a successful download with non-local storage whose upload
\* raised a StorageError, the local file still exists, no handler runs and
\* nothing is raised to the runtime; the invocation persists COMPLETED with
\* the local file reference as result URL and the upload error message, and
\* returns "completed".
C5_UploadFailureDegrades ==
    /\ [](upl \in StorageErrorCodes =>
            /\ fileExists
            /\ pc \in {"complete", "notify_completed", "done", "killed"}
            /\ pc = "done" => ret = "completed"
            /\ pc = "complete" =>
                 /\ "download_url" \in DOMAIN pend
                 /\ pend["download_url"] = "file"
                 /\ "error_message" \in DOMAIN pend
                 /\ pend["error_message"] = "Storage upload failed")
    /\ [][ (WorkerLeaves("complete") /\ upl \in StorageErrorCodes) =>
             /\ db'.status = COMPLETED
             /\ db'.download_url = "file"
             /\ db'.error_message = "Storage upload failed"
             /\ db'.file_name = "name"
             /\ fileExists' ]_vars

C5_Witness ==
    /\ upl = "BACKEND_ERROR"
    /\ pc = "done"
    /\ ret = "completed"
    /\ db.status = COMPLETED
    /\ db.download_url = "file"
    /\ db.error_message = "Storage upload failed"
    /\ fileExists

\* C6: the handler of a classified DownloadError persists FAILED with the
\* error's code and message, starts the failure callback iff a callback URL
\* was supplied, and the invocation returns "failed" without raising, after
\* which the runtime never re-invokes the task.
C6_DownloadErrorHandled ==
    /\ [][ WorkerLeaves("except_download_error") =>
             /\ db'.status = FAILED
             /\ db'.error_code = exc.code
             /\ db'.error_message = exc.message
             /\ IF cfg.callback_url
                THEN /\ pc' = "notify_failed"
                     /\ cb'.pc = "loop"
                     /\ cb'.payload.status = "failed"
                     /\ cb'.payload.code = exc.code
                     /\ cb'.payload.message = exc.message
                ELSE /\ pc' = "done"
                     /\ ret' = "failed"
                     /\ cb' = cb ]_vars
    /\ [][ WorkerLeaves("notify_failed") =>
             (pc' = "done" /\ ret' = "failed") ]_vars
    /\ [][ ret = "failed" => (pc' = "done" /\ ret' = "failed"
                              /\ retries' = retries) ]_vars
    /\ [](ret = "failed" => ("callback" \in work <=> cfg.callback_url))

C6_Witness ==
    /\ ret = "failed"
    /\ pc = "done"
    /\ db.status = FAILED
    /\ db.error_code = "FILE_TOO_LARGE"
    /\ "callback" \in work
    /\ retries = 0

\* C7: the handler of an unclassified exception persists FAILED with code
\* UNKNOWN_ERROR, starts the failure callback iff a callback URL was
\* supplied, and then the invocation re-raises to the runtime.
C7_UnknownErrorHandled ==
    /\ [][ WorkerLeaves("except_exception") =>
             /\ db'.status = FAILED
             /\ db'.error_code = "UNKNOWN_ERROR"
             /\ db'.error_message = exc.message
             /\ IF cfg.callback_url
                THEN /\ pc' = "notify_raise"
                     /\ cb'.pc = "loop"
                     /\ cb'.payload.status = "failed"
                     /\ cb'.payload.code = "UNKNOWN_ERROR"
                ELSE /\ pc' = "raised"
                     /\ ret' = "raise"
                     /\ cb' = cb ]_vars
    /\ [][ WorkerLeaves("notify_raise") =>
             (pc' = "raised" /\ ret' = "raise") ]_vars
    /\ [](ret = "raise" => ("callback" \in work <=> cfg.callback_url))

C7_Witness ==
    /\ pc = "raised"
    /\ ret = "raise"
    /\ "upload" \in work
    /\ "callback" \in work
    /\ db.status = FAILED
    /\ db.error_code = "UNKNOWN_ERROR"

\* C8: a notifier call returns true exactly when an attempt was answered
\* with a status in [200,300), after as many POSTs as attempts made and
\* with no wait after that attempt; it returns false after exactly N POSTs
\* when all N attempts failed; three failing attempts with N = 3 wait 30
\* and then 60 seconds.
C8_NotifierResult ==
    /\ [](cb.pc = "returned" =>
            /\ cb.result = "true" <=>
                 (cb.last.kind = "response" /\ cb.last.status \in 200..299)
            /\ cb.result = "true" =>
                 (cb.posts = cb.attempt + 1 /\ cb.posts <= cb.n
                  /\ Len(cb.waits) = cb.posts - 1)
            /\ cb.result = "false" => cb.posts = cb.n
            /\ (cb.result = "false" /\ cb.n = 3) => cb.waits = <<30, 60>>)
    /\ [](cb.pc = "loop" =>
            (cb.posts = cb.attempt /\ cb.posts < cb.n
             /\ ~(cb.last.kind = "response" /\ cb.last.status \in 200..299)))
    /\ [][ (cb'.posts = cb.posts + 1 /\ cb'.result = "true") =>
             cb'.waits = cb.waits ]_vars

C8_Witness ==
    /\ cb.pc = "returned"
    /\ cb.conv = "sync"
    /\ cb.n = 3
    /\ cb.result = "true"
    /\ cb.posts = 2
    /\ cb.waits = <<30>>

\* C9: after a failed attempt with zero-based index i that is not the last
\* one the wait is 30 * 2^i seconds whatever the failure, after the last
\* attempt there is no wait, so N failing attempts incur N-1 waits.
C9_Backoff ==
    /\ [][ (cb'.posts = cb.posts + 1 /\ cb'.result # "true") =>
             IF cb.attempt < cb.n - 1
             THEN cb'.waits = Append(cb.waits, 30 * (2 ^ cb.attempt))
             ELSE cb'.waits = cb.waits ]_vars
    /\ []((cb.pc = "returned" /\ cb.result = "false") =>
             Len(cb.waits) = cb.n - 1)

C9_Witness ==
    /\ cb.pc = "returned"
    /\ cb.conv = "async"
    /\ cb.n = 4
    /\ cb.result = "false"
    /\ cb.last.kind = "request_error"
    /\ cb.waits = <<30, 60, 120>>

\* C10: the notifier never raises: every call, in either calling
\* convention and for every sequence of attempt outcomes, returns a boolean.
C10_NotifierNeverRaises ==
    cb.pc = "returned" => cb.result \in {"true", "false"}

C10_Witness ==
    /\ cb.pc = "returned"
    /\ cb.last.kind = "exception"
    /\ cb.posts = cb.n
    /\ cb.result = "false"

\* C11: the two calling conventions are equivalent: for the same
\* max_retries configuration and the same sequence of attempt outcomes, the
\* synchronous and the asynchronous call make the same number of POSTs, wait
\* the same durations and end with the same result, at every point of the
\* two calls.
C11_SyncAsyncEquivalent ==
    fn.op = "async_twin" =>
        /\ cb.pc = fn.c.pc
        /\ cb.posts = fn.c.posts
        /\ cb.waits = fn.c.waits
        /\ cb.result = fn.c.result

C11_Witness ==
    /\ fn.op = "async_twin"
    /\ cb.pc = "returned" /\ fn.c.pc = "returned"
    /\ cb.result = "false" /\ fn.c.result = "false"
    /\ cb.posts = 3 /\ Len(fn.c.waits) = 2

\* C12: the outcome of the callback never changes the task record: no
\* attempt of the notifier and no return of the notifier to the controller
\* writes the row, and what the invocation returns after the notifier call
\* is fixed by the place of the call (completed, failed, re-raise), whatever
\* boolean the notifier returned.
C12_CallbackLeavesRecord ==
    [][ /\ (pc \in NotifyPcs /\ pc' = pc /\ cb' # cb) =>
            (db' = db /\ pend' = pend)
        /\ (pc \in NotifyPcs /\ cb.result \in {"true", "false"}
                /\ WorkerLeaves(pc)) =>
            /\ db' = db
            /\ pend' = pend
            /\ pc = "notify_completed" => ret' = "completed"
            /\ pc = "notify_failed" => ret' = "failed"
            /\ pc = "notify_raise" => ret' = "raise" ]_vars

C12_Witness ==
    /\ pc = "notify_completed"
    /\ cb.pc = "returned" /\ cb.result = "false" /\ cb.posts = 3
    /\ db.status = COMPLETED

\* C13: no torn state: in every committed state of the row whose status is
\* COMPLETED the result fields download_url, file_name and file_size are
\* all set.
C13_CompletedHasResult ==
    db.status = COMPLETED =>
        /\ db.download_url # Null
        /\ db.file_name # Null
        /\ db.file_size # Null

C13_Witness ==
    /\ db.status = COMPLETED
    /\ upl = "uploaded"
    /\ db.download_url = "remote"

\* C14: in download(), a produced file whose size is strictly greater than
\* the configured maximum is deleted and the call fails with FILE_TOO_LARGE;
\* a file at or under the maximum is kept and a DownloadResult is returned;
\* no oversized file is on disk once download() has returned or raised.
AtOrUnderLimit(size) ==
    size.kib < max_file_size \/ (size.kib = max_file_size /\ size.b = 0)

C15_PercentsMonotoneBounded ==
    fn.op = "download" =>
        /\ \A i \in 1..Len(fn.percents) :
              fn.percents[i] >= 0 /\ fn.percents[i] <= 100
        /\ \A i \in 1..(Len(fn.percents) - 1) :
              fn.percents[i] <= fn.percents[i + 1]

\* C16: for storage selection local, upload() calls no backend handler (no
\* network action) and leaves the source file as it was, also when
\* delete_local is true; for a source file that exists it returns the local
\* file reference file://<path>.
C16_LocalKeepsFile ==
    (fn.op = "upload" /\ fn.at = "done" /\ fn.storage_type = "local") =>
        /\ fn.r.handler = "none"
        /\ fn.r.unlink = "none"
        /\ fn.r.exists = fn.exists
        /\ fn.exists => (fn.r.value = "file" /\ fn.r.error = Null)

C16_Witness ==
    /\ fn.op = "upload" /\ fn.at = "done"
    /\ fn.storage_type = "local" /\ fn.delete_local /\ fn.exists
    /\ fn.r.value = "file" /\ fn.r.exists

\* C17: for every non-local storage selection and a local file that exists,
\* an absent or empty destination URL makes upload() fail with
\* MISSING_STORAGE_URL, no backend handler having been called, and the
\* local file is left in place.
C17_MissingUrlFirst ==
    (fn.op = "upload" /\ fn.at = "done" /\ fn.storage_type # "local"
        /\ fn.exists /\ fn.storage_url \in {Null, ""}) =>
        /\ fn.r.error = "MISSING_STORAGE_URL"
        /\ fn.r.value = Null
        /\ fn.r.handler = "none"
        /\ fn.r.unlink = "none"
        /\ fn.r.exists

C17_Witness ==
    /\ fn.op = "upload" /\ fn.at = "done"
    /\ fn.storage_type = "s3_compatible" /\ fn.storage_url = ""
    /\ fn.delete_local /\ fn.exists
    /\ fn.r.error = "MISSING_STORAGE_URL"

\* C18: in upload() for a non-local backend the local file is deleted only
\* after the handler returned a remote URL and only if deletion was
\* requested; when the deletion fails the remote URL is returned all the
\* same; whenever upload() raises a StorageError the local file has not
\* been deleted.
C18_DeleteOnlyAfterSuccess ==
    (fn.op = "upload" /\ fn.at = "done" /\ fn.storage_type # "local") =>
        /\ fn.r.unlink # "none" =>
              (fn.delete_local /\ fn.r.handler = fn.storage_type
                  /\ fn.r.value = "remote" /\ fn.r.error = Null)
        /\ (fn.exists /\ ~fn.r.exists) => fn.r.unlink = "ok"
        /\ fn.r.error # Null =>
              (fn.r.unlink = "none" /\ fn.r.exists = fn.exists)

C18_Witness ==
    /\ fn.op = "upload" /\ fn.at = "done"
    /\ fn.storage_type = "s3" /\ fn.delete_local
    /\ fn.r.unlink = "failed" /\ fn.r.value = "remote" /\ fn.r.exists

\* C19 (as stated): for every backend handler the object key is
\* <prefix>/<file name> when the parsed prefix is non-empty and exactly the
\* file name when it is empty; no trailing slash of the destination URL
\* shows in the key; s3://bkt/dir/ and clip.mp4 give dir/clip.mp4.
C19_KeyIsPrefixSlashName ==
    (fn.op = "key" /\ fn.at = "done" /\ fn.r.error = Null) =>
        /\ fn.r.key = IF fn.r.prefix = <<>> THEN FileName
                      ELSE fn.r.prefix \o <<"/">> \o FileName
        /\ fn.r.prefix # <<>> => fn.r.prefix[Len(fn.r.prefix)] # "/"

\* C19 (amended): the key is the file name when the parsed prefix is empty
\* and otherwise <prefix>/<file name> with the leading slashes of the prefix
\* removed; the parsed prefix never ends with a slash, so no trailing slash
\* of the destination URL shows in the key; s3://bkt/dir/ (gs://bkt/dir/)
\* and clip.mp4 give dir/clip.mp4.
C19_KeyIsStrippedPrefixSlashName ==
    (fn.op = "key" /\ fn.at = "done" /\ fn.r.error = Null) =>
        /\ fn.r.key = IF fn.r.prefix = <<>> THEN FileName
                      ELSE LStrip(fn.r.prefix) \o <<"/">> \o FileName
        /\ fn.r.prefix # <<>> => fn.r.prefix[Len(fn.r.prefix)] # "/"
        /\ (fn.storage_type \in {"s3", "gcs"}
                /\ SubSeq(fn.storage_url, 2, Len(fn.storage_url))
                     = <<"/", "/", "bkt", "/", "dir", "/">>) =>
              fn.r.key = <<"dir", "/", "clip.mp4">>

C19_Witness ==
    /\ fn.op = "key" /\ fn.at = "done"
    /\ fn.storage_type = "s3"
    /\ fn.storage_url = <<"s3:", "/", "/", "bkt", "/", "dir", "/">>
    /\ fn.r.key = <<"dir", "/", "clip.mp4">>

\* C20: end to end, for a task with local storage and a callback URL whose
\* target answers 2xx, run once without a cancel request, whose download
\* succeeds under the size cap: when the notifier returns, and when the
\* invocation has returned, the persisted status is COMPLETED and the result
\* URL is the local file reference; exactly one POST was sent and it carries
\* status completed and that URL; UPLOADING is never persisted and the
\* upload stage is never entered.
C20_Scenario ==
    /\ cfg.storage_type = "local"
    /\ cfg.callback_url
    /\ cancels = 0
    /\ retries = 0

C20_EndToEndSuccess ==
    /\ [](C20_Scenario =>
            /\ db.status # UPLOADING
            /\ "upload" \notin work
            /\ (pc = "notify_completed" /\ cb.pc = "returned"
                    /\ cb.attempt = 0 /\ IsSuccess(cb.last)) =>
                  /\ db.status = COMPLETED
                  /\ db.download_url = "file"
                  /\ db.progress = 100
                  /\ cb.result = "true"
                  /\ cb.posts = 1
                  /\ cb.payload.status = "completed"
                  /\ cb.payload.url = "file"
            /\ (pc = "done" /\ ret = "completed") =>
                  (db.status = COMPLETED /\ db.download_url = "file"))
    /\ [][(C20_Scenario /\ pc = "notify_completed" /\ cb.pc = "returned"
                /\ cb.result = "true" /\ WorkerLeaves("notify_completed")) =>
            (pc' = "done" /\ ret' = "completed" /\ db' = db)]_vars

C20_Witness ==
    /\ C20_Scenario
    /\ pc = "notify_completed" /\ cb.pc = "returned"
    /\ cb.posts = 1 /\ cb.result = "true"
    /\ db.status = COMPLETED /\ db.download_url = "file"
    /\ {"probe", "download", "callback"} \subseteq work

\* the scenario of C21: a callback URL is set, the task runs once, no cancel
\* request is made, and the probe failed with "Video unavailable"
C21_Scenario ==
    /\ cfg.callback_url
    /\ cancels = 0
    /\ retries = 0
    /\ "probe_unavailable" \in work

\* C21 (as stated): when the extraction library reports Video unavailable
\* during the probe, the invocation ends with status FAILED and error code
\* VIDEO_UNAVAILABLE, and no file is written.
C21_ProbeUnavailableFails ==
    (C21_Scenario /\ pc = "done") =>
        /\ db.status = FAILED
        /\ db.error_code = "VIDEO_UNAVAILABLE"
        /\ ~fileExists

\* C21 (amended): when the extraction library reports Video unavailable
\* during the probe and again during the download, the invocation ends with
\* status FAILED and error code VIDEO_UNAVAILABLE, no file is written and no
\* upload is attempted; the failure callback, whose target answers 2xx, is
\* sent with exactly one POST carrying status failed and that code.
C21_UnavailableTwiceFails ==
    (C21_Scenario /\ exc.code = "VIDEO_UNAVAILABLE") =>
        /\ ~fileExists
        /\ "upload" \notin work
        /\ pc \in {"except_download_error", "notify_failed", "done"}
        /\ (pc = "notify_failed" /\ cb.pc = "returned" /\ cb.attempt = 0
                /\ IsSuccess(cb.last)) =>
              /\ db.status = FAILED
              /\ db.error_code = "VIDEO_UNAVAILABLE"
              /\ cb.result = "true"
              /\ cb.posts = 1
              /\ cb.payload.status = "failed"
              /\ cb.payload.code = "VIDEO_UNAVAILABLE"
        /\ pc = "done" =>
              /\ ret = "failed"
              /\ db.status = FAILED
              /\ db.error_code = "VIDEO_UNAVAILABLE"

C21_Witness ==
    /\ C21_Scenario
    /\ exc.code = "VIDEO_UNAVAILABLE"
    /\ pc = "notify_failed" /\ cb.pc = "returned" /\ cb.posts = 1
    /\ cb.result = "true"
    /\ db.status = FAILED /\ db.error_code = "VIDEO_UNAVAILABLE"

\* configuration errors of the storage step
ConfigErrorCodes ==
    {"MISSING_STORAGE_URL", "MISSING_DEPENDENCY", "MISSING_CREDENTIALS",
     "INVALID_STORAGE_TYPE"}

\* C22: a configuration error of the storage step (missing destination URL,
\* missing SDK dependency, missing credentials, unknown storage type) never
\* makes the runtime re-invoke the task: the invocation in which it occurred
\* does not reach a handler and does not raise, it returns completed, and
\* the count of re-invocations stays as it was.
C22_ConfigErrorsNotRetried ==
    /\ [](upl \in ConfigErrorCodes =>
            /\ pc \in {"complete", "notify_completed", "done", "killed"}
            /\ pc = "done" => ret = "completed")
    /\ [][(upl \in ConfigErrorCodes) => (retries' = retries)]_vars

C22_Witness ==
    /\ upl = "MISSING_DEPENDENCY"
    /\ retries = 0
    /\ pc = "done" /\ ret = "completed"
    /\ db.status = COMPLETED /\ db.download_url = "file"

\* C23: in every committed state where the status is FAILED both error_code
\* and error_message are set; and while the failure callback is being sent
\* or has just returned, its payload carries status failed with the code and
\* the message of the record.
C23_FailureIsCodeAndMessage ==
    /\ db.status = FAILED =>
          (db.error_code # Null /\ db.error_message # Null)
    /\ (pc \in {"notify_failed", "notify_raise"} /\ cb.pc # "idle") =>
          /\ cb.payload.status = "failed"
          /\ cb.payload.code = db.error_code
          /\ cb.payload.message = db.error_message

C23_Witness ==
    /\ db.status = FAILED
    /\ pc = "notify_failed" /\ cb.pc = "returned" /\ cb.result = "true"
    /\ cb.payload.code = "FILE_TOO_LARGE"
    /\ db.error_code = "FILE_TOO_LARGE"

\* C24 (as stated): whenever an override is supplied to the Format Policy
\* the result is exactly that override, for every override value including
\* the empty string.
C24_OverrideAlwaysWins ==
    (fn.op = "format" /\ fn.at = "done" /\ fn.format_spec.given) =>
        fn.r = fn.format_spec.text

\* C24 (amended): whenever a non-empty override is supplied the result is
\* exactly that override; an empty override is treated as no override and
\* the result is the expression computed from download_type and
\* video_quality, which is never empty.
C24_NonEmptyOverrideWins ==
    (fn.op = "format" /\ fn.at = "done") =>
        /\ (fn.format_spec.given /\ fn.format_spec.text # <<>>) =>
              fn.r = fn.format_spec.text
        /\ (fn.format_spec.given /\ fn.format_spec.text = <<>>) =>
              /\ fn.r # <<>>
              /\ fn.r = build_format_spec(fn.download_type, fn.video_quality,
                                          NoOverride)

C24_Witness ==
    /\ fn.op = "format" /\ fn.at = "done"
    /\ fn.format_spec = [given |-> TRUE, text |-> <<"custom">>]
    /\ fn.download_type = "audio"
    /\ fn.r = <<"custom">>

\* C25: in an invocation that passed the entry check, with no cancel
\* request, the statuses the worker persists are in order DOWNLOADING, then
\* UPLOADING iff the download succeeded and the storage is not local, then
\* exactly one of COMPLETED and FAILED: DOWNLOADING is written by the first
\* write of the invocation, UPLOADING only over DOWNLOADING after a
\* successful download with non-local storage, COMPLETED only after a
\* successful download and over UPLOADING (non-local) or DOWNLOADING
\* (local), FAILED only over DOWNLOADING or UPLOADING.
C25_StatusOrder ==
    [][(cancels = 0 /\ cancels' = 0 /\ db'.status # db.status) =>
        CASE db'.status = DOWNLOADING ->
                pc = "mark_downloading" /\ "write" \notin work
          [] db'.status = UPLOADING ->
                /\ db.status = DOWNLOADING
                /\ "download" \in work /\ fileExists
                /\ UsesStorage(cfg.storage_type)
          [] db'.status = COMPLETED ->
                /\ "download" \in work
                /\ db.status = IF UsesStorage(cfg.storage_type)
                               THEN UPLOADING ELSE DOWNLOADING
          [] db'.status = FAILED ->
                db.status \in {DOWNLOADING, UPLOADING}
          [] OTHER -> FALSE]_vars

\* C26: a failure of the metadata probe is never fatal: the step in which
\* the probe fails writes nothing, records no exception and leads to the
\* DOWNLOADING commit; afterwards the invocation never reaches a handler,
\* a terminal status or a return before the download has run, so its final
\* status is decided by the download and the later steps.
C26_ProbeFailureNotFatal ==
    /\ [][(pc = "probe" /\ "probe_failed" \in work') =>
            (pc' = "mark_downloading" /\ db' = db /\ pend' = pend
                /\ exc' = exc /\ ret' = ret)]_vars
    /\ []("probe_failed" \in work =>
            /\ pc \in {"mark_downloading", "download"} => exc = NoExc
            /\ "download" \notin work =>
                  pc \in {"mark_downloading", "download", "killed"}
            /\ pc = "download" =>
                  ("write" \in work /\ ret = "none"))

C26_Witness ==
    /\ "probe_failed" \in work
    /\ "probe_unavailable" \notin work
    /\ pc = "done" /\ ret = "completed"
    /\ db.status = COMPLETED
    /\ cancels = 0 /\ retries = 0

\* C27: a persistence error raised while the progress callback writes the
\* progress is swallowed: the step leaves the worker in the download with
\* no exception recorded and the row untouched, and after it the invocation
\* reaches a handler only through the download or a later step, so FAILED
\* is never the consequence of the failed write; the download can end as it
\* does when the write succeeds.
C27_ProgressErrorSwallowed ==
    /\ [][("write_failed" \notin work /\ "write_failed" \in work') =>
            (pc = "download" /\ pc' = "download" /\ exc' = exc
                /\ ret' = ret /\ db' = db /\ fileExists' = fileExists)]_vars
    /\ []("write_failed" \in work =>
            /\ pc = "download" => (exc = NoExc /\ ret = "none")
            /\ pc \in {"except_download_error", "except_exception",
                       "notify_failed", "notify_raise", "raised"} =>
                  "download" \in work
            /\ (db.status = FAILED /\ retries = 0) => "download" \in work)

C27_Witness ==
    /\ "write_failed" \in work
    /\ pc = "done" /\ ret = "completed"
    /\ db.status = COMPLETED /\ db.progress = 100
    /\ cancels = 0 /\ retries = 0

\* C28: while the success callback is being sent by the worker, or after the
\* invocation that sent it has returned, the persisted status of the task is
\* COMPLETED and its progress is 100.
C28_NotifiedMeansCompleted ==
    (cfg.callback_url /\ "callback" \in work
        /\ (pc = "notify_completed" \/ (pc = "done" /\ ret = "completed"))) =>
        (db.status = COMPLETED /\ db.progress = 100)

\* C29: the commit of cancel_task changes the row only when the persisted
\* status is PENDING or DOWNLOADING; a row that is UPLOADING, COMPLETED,
\* FAILED or CANCELLED is left as it is.
C29_CancelOnlyFromPendingOrDownloading ==
    [][(cpc = "commit" /\ cpc' = "idle") =>
            (db.status \in {PENDING, DOWNLOADING} \/ db' = db)]_vars

\* C30: without any cancel request, a COMPLETED record carries what a first
\* invocation that succeeds leaves: no error code, and no error message
\* other than the one of a degraded upload, however many times the runtime
\* re-invoked the task before.
C30_RerunLeavesFirstRunRecord ==
    (db.status = COMPLETED /\ cancels = 0) =>
        /\ db.error_code = Null
        /\ db.error_message \in {Null, "Storage upload failed"}

C32_EndsCompletedOrFailed ==
    (pc \in {"done", "raised"} /\ ret # "cancelled") =>
        db.status \in {COMPLETED, FAILED}

\* C33: in either phase, a failure text that names an unavailable or private
\* resource, an unsupported source or a rate limit is given one of the codes
\* of the kinds it names (VIDEO_UNAVAILABLE, UNSUPPORTED_SITE, RATE_LIMITED),
\* and only a text naming none of them is given the code of the phase,
\* EXTRACTION_ERROR or DOWNLOAD_ERROR.
C33_NamedCodes(error_msg) ==
    (IF "Video unavailable" \in error_msg \/ "Private video" \in error_msg
     THEN {"VIDEO_UNAVAILABLE"} ELSE {})
    \cup (IF "Unsupported URL" \in error_msg
          THEN {"UNSUPPORTED_SITE"} ELSE {})
    \cup (IF "HTTP Error 429" \in error_msg
                \/ "rate limit" \in error_msg \/ "Rate Limit" \in error_msg
          THEN {"RATE_LIMITED"} ELSE {})

C33_SameClassificationInBothPhases ==
    (fn.op = "classify" /\ fn.at = "done") =>
        IF C33_NamedCodes(fn.error_msg) # {}
        THEN fn.code \in C33_NamedCodes(fn.error_msg)
        ELSE fn.code = (IF fn.phase = "probe" THEN "EXTRACTION_ERROR"
                        ELSE "DOWNLOAD_ERROR")

\* C34: once download() has resolved the file or failed to: if the last
\* "finished" event reported a path and that file exists, the result is
\* that path; otherwise the result is an entry of the download directory
\* whose name contains the identifier of this call; FILE_NOT_FOUND is
\* raised exactly when neither gives an existing file.  A resolved file is
\* the reported path or has the identifier in its name.
C34_Reported ==
    fn.downloaded_file # Null /\ Exists(fn.downloaded_file, fn.dir)

C34_FileResolution ==
    (fn.op = "resolve" /\ fn.at \in {"resolved", "raised"}) =>
        /\ C34_Reported => (fn.at = "resolved"
                                /\ fn.file_path = fn.downloaded_file)
        /\ (~C34_Reported /\ fn.at = "resolved") =>
                (Exists(fn.file_path, fn.dir) /\ ContainsId(fn.file_path))
        /\ fn.at = "raised" <=>
                (~C34_Reported
                    /\ \A i \in 1..Len(fn.dir) : ~ContainsId(fn.dir[i]))
        /\ fn.at = "raised" => fn.result = "FILE_NOT_FOUND"
        /\ fn.at = "resolved" =>
                (ContainsId(fn.file_path)
                    \/ fn.file_path = fn.downloaded_file)

C34_Witness ==
    /\ fn.op = "resolve" /\ fn.at = "resolved"
    /\ fn.finished = 2
    /\ fn.downloaded_file = "title_id.f1.mp4"
    /\ ~Exists(fn.downloaded_file, fn.dir)
    /\ fn.dir = <<"other_xx.mp4", "title_id.mp4">>
    /\ fn.file_path = "title_id.mp4"

\* C35: for the S3-compatible backend and a destination that parses, the
\* native vendor handler is selected exactly when the host name is in the
\* vendor's virtual-hosted notation (it contains the region marker and ends
\* with the vendor domain); every other destination, an endpoint-style URL
\* on the vendor domain included, is given to the generic client.
C35_VirtualHosted(hostname) ==
    /\ \E i \in 1..Len(hostname) : hostname[i] = ".oss-"
    /\ hostname # <<>>
    /\ hostname[Len(hostname)] = ".aliyuncs.com"

C35_NativeOnlyForVirtualHosted ==
    (fn.op = "key" /\ fn.at = "done" /\ fn.storage_type = "s3_compatible"
        /\ fn.r.error = Null) =>
        (fn.r.handler = "oss_native"
            <=> C35_VirtualHosted(fn.storage_url.hostname))

\* C36: the access key and the secret key handed to the SDK for one upload
\* come from the same source: both from the URL, both from the backend's
\* environment variables, both from the generic environment variables, or
\* both left to the SDK's default chain.  Stated for the calls that hand
\* two keys to the SDK.
C36_KeysFromOneSource ==
    (fn.op = "credentials" /\ fn.at = "done" /\ fn.r.error = Null
        /\ fn.r.access_key # Null /\ fn.r.secret_key # Null) =>
        fn.r.access_key = fn.r.secret_key

\* C37: whenever the persisted status is COMPLETED, the artifact the result
\* URL names is there: a local file reference means the local file exists,
\* and the local file is missing only when the result URL is the remote URL
\* returned by an upload that succeeded in this invocation.
C37_CompletedArtifactExists ==
    db.status = COMPLETED =>
        /\ db.download_url \in {"file", "remote"}
        /\ db.download_url = "file" => fileExists
        /\ ~fileExists => (db.download_url = "remote" /\ upl = "uploaded")
        /\ db.download_url = "remote" => upl = "uploaded"

C37_Witness ==
    /\ db.status = COMPLETED
    /\ db.download_url = "remote"
    /\ ~fileExists
    /\ upl = "uploaded"
    /\ pc = "done"

\* C38: a task with a callback URL that the runtime re-invoked has sent a
\* failure callback before (the generic handler sends it, then re-raises);
\* no invocation of that task sends a success callback afterwards.
C38_NoSuccessAfterFailureCallback ==
    (cfg.callback_url /\ retries > 0 /\ cancels = 0) =>
        pc # "notify_completed"

\* C39: when the upload to the S3 backend has raised a StorageError, no
\* object was stored in the bucket by that call.
C39_FailureStoredNothing ==
    (fn.op = "s3" /\ fn.at = "raised") => ~fn.stored

\* C40: a notifier constructed with a non-negative max_retries never makes
\* more POST attempts in one call than that value; constructed with 0 it
\* makes none and the call returns false.
C40_PostsWithinConfigured ==
    cb.arg >= 0 =>
        /\ cb.posts <= cb.arg
        /\ (cb.arg = 0 /\ cb.pc = "returned") => cb.result = "false"

====
